---- MODULE Spec2Model ----
(***************************************************************************)
(* Cart store of server.js: the process-wide map `carts` from session id   *)
(* to an array of line items, and the five cart routes that read and       *)
(* mutate it (POST/GET/PUT/DELETE /api/cart[/:productId]) together with    *)
(* the middleware each route runs first (generateSessionId,                *)
(* validateProductId, validateQuantity).                                   *)
(*                                                                         *)
(* Encodings                                                               *)
(*  - money: a price is held in cents (999.99 -> 99999); the binary64 sum  *)
(*    of calculateCartTotal is held in 1/100 cent and may be off by one    *)
(*    such unit either way (FloatSums), which bounds the rounding error of *)
(*    at most ten binary64 operations on values below 2^24 from above.     *)
(*  - a URL parameter is a sequence of one-character strings.              *)
(*  - a session id is a number: i >= 1 is the i-th distinct non-empty      *)
(*    string; as a header value 0 is the empty string and -1 is "header    *)
(*    not sent" (undefined).                                               *)
(*  - an array index is the JavaScript index plus one; 0 stands for -1.    *)
(***************************************************************************)
EXTENDS Integers, Sequences, FiniteSets, TLC

\* Number of distinct session ids (sent by clients or generated).
MaxSessions == 2
\* Integer quantities sent in request bodies are 25 * k for k in -1..MaxQtyMult.
MaxQtyMult == 3
\* Number of successful POSTs that leave the quantity out (and so add 1).
MaxDefaultAdds == 1

VARIABLES
  carts,       \* server.js:58 -- the Map from session id to cart array
  resp,        \* the response to the last request
  defaultAdds, \* successful POSTs so far whose body had no quantity
  products     \* server.js:14 -- the array of product objects

vars == <<carts, resp, defaultAdds, products>>

----------------------------------------------------------------------------
(* server.js:14-55 -- the product objects the array `products` is created *)
(* with.                                                                  *)
Catalog ==
  << [id |-> 1, name |-> "iPhone 15 Pro", price |-> 99999,
      image |-> "https://9to5mac.com/wp-content/uploads/sites/6/2024/07/apple-device-lineup.jpg?quality=82&strip=all&w=1600",
      description |-> "Latest iPhone with advanced features", stock |-> 50],
     [id |-> 2, name |-> "Samsung Galaxy S24", price |-> 89999,
      image |-> "https://wallpaperaccess.com/full/9496579.jpg",
      description |-> "Flagship Samsung smartphone", stock |-> 30],
     [id |-> 3, name |-> "MacBook Pro M3", price |-> 199999,
      image |-> "https://wallpaperaccess.com/full/9496579.jpg",
      description |-> "Powerful laptop for professionals", stock |-> 25],
     [id |-> 4, name |-> "Sony WH-1000XM5", price |-> 39999,
      image |-> "https://wallpaperaccess.com/full/9496579.jpg",
      description |-> "Noise-canceling wireless headphones", stock |-> 40],
     [id |-> 5, name |-> "iPad Air", price |-> 59999,
      image |-> "https://tse4.mm.bing.net/th/id/OIP.E9Ux33FuCo7mGLn9Ey3wnAHaE8?pid=Api&P=0&h=180",
      description |-> "Versatile tablet for work and play", stock |-> 35] >>

----------------------------------------------------------------------------
(* Inputs of the requests. *)

SessionIds == 1..MaxSessions

\* Values of the x-session-id request header.
Headers == (-1)..MaxSessions

\* Values of the :productId URL parameter.
ProductIdParams ==
  { <<"1">>, <<"3">>, <<"9">>, <<"0">>, <<"-", "1">>, <<"a">>, <<"1", "a">> }

\* JSON values of body.quantity: absent, a number that is an integer, or any
\* other JSON value (2.5, "25", null, true).
Undefined == [type |-> "undefined", val |-> 0]

NonInteger == [type |-> "other", val |-> 0]

Integer(n) == [type |-> "integer", val |-> n]

Quantities ==
  {Undefined, NonInteger} \cup { Integer(25 * k) : k \in (-1)..MaxQtyMult }

----------------------------------------------------------------------------
(* JavaScript built-ins used by the handlers. *)

Digits == {"0", "1", "2", "3", "4", "5", "6", "7", "8", "9"}

DigitVal(c) ==
  CASE c = "0" -> 0 [] c = "1" -> 1 [] c = "2" -> 2 [] c = "3" -> 3
    [] c = "4" -> 4 [] c = "5" -> 5 [] c = "6" -> 6 [] c = "7" -> 7
    [] c = "8" -> 8 [] c = "9" -> 9

NaN == [nan |-> TRUE, val |-> 0]

Number(n) == [nan |-> FALSE, val |-> n]

isNaN(x) == x.nan

RECURSIVE ParseDigits(_, _, _)
\* The longest prefix of digits of str from position i on, read in base 10
\* onto acc; what follows the digits is ignored.
ParseDigits(str, i, acc) ==
  IF i > Len(str) \/ str[i] \notin Digits
    THEN acc
    ELSE ParseDigits(str, i + 1, 10 * acc + DigitVal(str[i]))

\* parseInt(str): optional sign, then at least one digit, else NaN.
parseInt(str) ==
  LET signed == Len(str) > 0 /\ str[1] \in {"-", "+"}
      first  == IF signed THEN 2 ELSE 1
      mag    == ParseDigits(str, first, 0)
  IN  IF first > Len(str) \/ str[first] \notin Digits
        THEN NaN
        ELSE Number(IF signed /\ str[1] = "-" THEN 0 - mag ELSE mag)

\* Array.prototype.findIndex with the predicate item.id === id.
findIndex(cart, id) ==
  IF \E i \in 1..Len(cart) : cart[i].id = id
    THEN CHOOSE i \in 1..Len(cart) :
           /\ cart[i].id = id
           /\ \A j \in 1..(i - 1) : cart[j].id # id
    ELSE 0

\* Variant: cart.splice(i), which also drops every item after the i-th.
spliceToEnd(cart, i) == SubSeq(cart, 1, i - 1)

\* cart.splice(i, 1) applied to the array: the array without its i-th item.
splice(cart, i) ==
  [j \in 1..(Len(cart) - 1) |-> IF j < i THEN cart[j] ELSE cart[j + 1]]

\* Variant: one array shared by every key of the map.
MapSetShared(store, key, value) ==
  [k \in DOMAIN store \cup {key} |-> value]

\* Map.prototype.set
MapSet(store, key, value) ==
  [k \in DOMAIN store \cup {key} |-> IF k = key THEN value ELSE store[k]]

----------------------------------------------------------------------------
(* server.js:61-76 -- utility functions. *)

NoProduct == <<>>

\* products.find(product => product.id === parseInt(id)), as a sequence of
\* zero or one product.
findProductById(id) ==
  LET n == parseInt(id)
      hits == { i \in 1..Len(products) : ~isNaN(n) /\ products[i].id = n.val }
  IN  IF hits = {} THEN NoProduct
      ELSE << products[CHOOSE i \in hits : \A j \in hits : i <= j] >>

\* Variant: the `if (!carts.has(sessionId))` guard left out.
getOrCreateCartAlwaysNew(store, sessionId) == MapSet(store, sessionId, <<>>)

\* The store after getOrCreateCart(sessionId); the cart it returns is the
\* array stored under sessionId.
getOrCreateCart(store, sessionId) ==
  IF sessionId \notin DOMAIN store
    THEN MapSet(store, sessionId, <<>>)
    ELSE store

RECURSIVE SumFrom(_, _)
SumFrom(cart, i) ==
  IF i > Len(cart) THEN 0
  ELSE cart[i].price * 100 * cart[i].quantity + SumFrom(cart, i + 1)

\* The exact value of the sum, in 1/100 cent.
calculateCartTotal(cart) == SumFrom(cart, 1)

\* The binary64 values the reduce of calculateCartTotal may return: exactly
\* 0 for an empty cart, else the sum up to the accumulated rounding error.
FloatSums(cart) ==
  IF Len(cart) = 0 THEN {0}
  ELSE { calculateCartTotal(cart) + d : d \in {-1, 0, 1} }

\* Variant: Math.floor(total * 100) / 100, which truncates.
toFixed2Truncating(total) == total \div 100

\* parseFloat(total.toFixed(2)): the nearest whole number of cents.
toFixed2(total) == (total + 50) \div 100

----------------------------------------------------------------------------
(* Responses.  A response carries the x-session-id header set by           *)
(* generateSessionId, the HTTP status, `success`, `message` and, when      *)
(* successful, data.cart, data.total (in cents), data.itemCount and        *)
(* data.removedItem (a sequence of zero or one item).  `op` names the      *)
(* route that produced it.                                                 *)

NoResponse ==
  [op |-> "none", sessionId |-> 0, status |-> 0, success |-> FALSE,
   message |-> "", cart |-> <<>>, total |-> 0, itemCount |-> 0,
   removedItem |-> <<>>]

\* res.status(status).json({success: false, message})
Failure(store, op, sessionId, status, message) ==
  { [carts |-> store, products |-> products,
     resp  |-> [op |-> op, sessionId |-> sessionId, status |-> status,
                success |-> FALSE, message |-> message, cart |-> <<>>,
                total |-> 0, itemCount |-> 0, removedItem |-> <<>>]] }

\* const total = calculateCartTotal(cart);
\* res.status(status).json({success: true, message,
\*   data: {cart, total: parseFloat(total.toFixed(2)), itemCount: cart.length, ...}})
Success(store, op, sessionId, status, message, cart, removedItem) ==
  { [carts |-> store, products |-> products,
     resp  |-> [op |-> op, sessionId |-> sessionId, status |-> status,
                success |-> TRUE, message |-> message, cart |-> cart,
                total |-> toFixed2(total), itemCount |-> Len(cart),
                removedItem |-> removedItem]] : total \in FloatSums(cart) }

----------------------------------------------------------------------------
(* server.js:78-122 -- middleware. *)

\* validateProductId: the response it sends (status # 0), or req.product.
validateProductId(productId) ==
  IF Len(productId) = 0 \/ isNaN(parseInt(productId))
    THEN [status |-> 400,
          message |-> "Invalid product ID. Product ID must be a number.",
          product |-> NoProduct]
    ELSE IF findProductById(productId) = NoProduct
      THEN [status |-> 404, message |-> "Product not found.",
            product |-> NoProduct]
      ELSE [status |-> 0, message |-> "",
            product |-> findProductById(productId)]

\* Variant: the check without `|| quantity <= 0`.
validateQuantityAnyInteger(quantity) ==
  IF quantity # Undefined
    THEN ~(quantity.type # "integer")
    ELSE TRUE

\* Variant: `if (quantity)` in place of `if (quantity !== undefined)`, which
\* lets 0 through unchecked.
validateQuantitySkipsFalsy(quantity) ==
  IF quantity # Undefined /\ quantity # Integer(0)
    THEN ~(quantity.type # "integer" \/ quantity.val <= 0)
    ELSE TRUE

\* validateQuantity: TRUE when it calls next(), FALSE when it answers 400.
validateQuantity(quantity) ==
  IF quantity # Undefined
    THEN ~(quantity.type # "integer" \/ quantity.val <= 0)
    ELSE TRUE

\* uuidv4(): an id that no cart of the store is keyed by.
uuidv4(store) == SessionIds \ DOMAIN store

\* Variant: req.headers['x-session-id'] ?? uuidv4(), which keeps an empty
\* header value as the session id.
generateSessionIdKeepsEmpty(store, header) ==
  IF header >= 0 THEN {header} ELSE uuidv4(store)

\* generateSessionId: the values req.sessionId may take,
\* req.headers['x-session-id'] || uuidv4().
generateSessionId(store, header) ==
  IF header >= 1 THEN {header} ELSE uuidv4(store)

\* Variant: the `if (!quantity)` check of the PUT handler left out.
NotLeftOut(quantity) == FALSE

\* !quantity for a body.quantity that passed validateQuantity.
Not(quantity) ==
  quantity = Undefined \/ (quantity.type = "integer" /\ quantity.val = 0)

----------------------------------------------------------------------------
(* server.js:184-397 -- the cart routes, each as the set of outcomes       *)
(* [carts, products, resp] of handling one request on `store` after        *)
(* generateSessionId has set req.sessionId.  No route assigns to a product *)
(* object, so every outcome carries `products` as it found it.             *)

\* Variant: the quantity compared with the wrong field of the product.
ExceedsPrice(quantity, product) == quantity > product.price

\* server.js:192, 206, 295 -- quantity > product.stock
ExceedsStock(quantity, product) == quantity > product.stock

\* Variant: the merge branch left out, so that the product is pushed again.
MergeAsPush(store, sessionId, cart, i, product, quantity) ==
  LET pushed == Append(cart, [id |-> product.id, name |-> product.name,
                              price |-> product.price, image |-> product.image,
                              quantity |-> quantity])
  IN  Success(MapSet(store, sessionId, pushed), "add", sessionId, 201,
              "Item added to cart successfully", pushed, <<>>)

\* Variant: a merge that also takes the quantity off the product's stock
\* (product.stock -= quantity), product being the catalog object itself.
MergeDecrementsStock(store, sessionId, cart, i, product, quantity) ==
  LET newQuantity == cart[i].quantity + quantity
      updated     == [cart EXCEPT ![i].quantity = newQuantity]
      sold        == [k \in 1..Len(products) |->
                        IF products[k].id = product.id
                          THEN [products[k] EXCEPT !.stock = @ - quantity]
                          ELSE products[k]]
  IN  IF ExceedsStock(newQuantity, product)
        THEN Failure(store, "add", sessionId, 400,
                     "Cannot add more items. Total would exceed stock limit.")
        ELSE { [out EXCEPT !.products = sold] :
                 out \in Success(MapSet(store, sessionId, updated), "add",
                                 sessionId, 201,
                                 "Item added to cart successfully", updated,
                                 <<>>) }

\* Variant: the quantity assigned in place before the stock check.
MergeAssignsBeforeCheck(store, sessionId, cart, i, product, quantity) ==
  LET newQuantity == cart[i].quantity + quantity
      updated     == [cart EXCEPT ![i].quantity = newQuantity]
  IN  IF ExceedsStock(newQuantity, product)
        THEN Failure(MapSet(store, sessionId, updated), "add", sessionId, 400,
                     "Cannot add more items. Total would exceed stock limit.")
        ELSE Success(MapSet(store, sessionId, updated), "add", sessionId,
                     201, "Item added to cart successfully", updated, <<>>)

\* The quantity of product id held by the carts of the given sessions
\* together.
RECURSIVE QuantityHeld(_, _, _)
QuantityHeld(store, sessions, id) ==
  IF sessions = {}
    THEN 0
    ELSE LET t == CHOOSE x \in sessions : TRUE
             i == findIndex(store[t], id)
         IN  (IF i = 0 THEN 0 ELSE store[t][i].quantity)
               + QuantityHeld(store, sessions \ {t}, id)

\* Variant: the stock ceiling applied to the product's quantity summed over
\* the carts of all sessions.
MergeChecksAllSessions(store, sessionId, cart, i, product, quantity) ==
  LET newQuantity == cart[i].quantity + quantity
      updated     == [cart EXCEPT ![i].quantity = newQuantity]
  IN  IF ExceedsStock(QuantityHeld(store, DOMAIN store, product.id) + quantity,
                      product)
        THEN Failure(store, "add", sessionId, 400,
                     "Cannot add more items. Total would exceed stock limit.")
        ELSE Success(MapSet(store, sessionId, updated), "add", sessionId,
                     201, "Item added to cart successfully", updated, <<>>)

\* server.js:204-213 -- the product is already in the cart at index i.
MergeQuantity(store, sessionId, cart, i, product, quantity) ==
  LET newQuantity == cart[i].quantity + quantity
  IN  IF ExceedsStock(newQuantity, product)
        THEN Failure(store, "add", sessionId, 400,
                     "Cannot add more items. Total would exceed stock limit.")
        ELSE LET updated == [cart EXCEPT ![i].quantity = newQuantity]
             IN  Success(MapSet(store, sessionId, updated), "add", sessionId,
                         201, "Item added to cart successfully", updated, <<>>)

\* Variant: cart.unshift in place of cart.push.
PushItemFront(cart, product, quantity) ==
  <<[id |-> product.id, name |-> product.name,
     price |-> product.price, image |-> product.image,
     quantity |-> quantity]>> \o cart

\* server.js:216-222 -- cart.push of a new line item.
PushItem(cart, product, quantity) ==
  Append(cart, [id |-> product.id, name |-> product.name,
                price |-> product.price, image |-> product.image,
                quantity |-> quantity])

\* server.js:185-243 -- POST /api/cart/:productId
PostCart(store, sessionId, productId, body) ==
  LET v == validateProductId(productId)
  IN  IF v.status # 0
        THEN Failure(store, "add", sessionId, v.status, v.message)
      ELSE IF ~validateQuantity(body)
        THEN Failure(store, "add", sessionId, 400,
                     "Quantity must be a positive integer.")
      ELSE
        LET quantity == IF body = Undefined THEN 1 ELSE body.val
            created  == getOrCreateCart(store, sessionId)
            cart     == created[sessionId]
            product  == v.product[1]
            existingItemIndex == findIndex(cart, product.id)
        IN  IF ExceedsStock(quantity, product)
              THEN Failure(created, "add", sessionId, 400,
                           "Insufficient stock. Only N items available.")
            ELSE IF existingItemIndex > 0
              THEN MergeQuantity(created, sessionId, cart, existingItemIndex,
                                 product, quantity)
            ELSE LET pushed == PushItem(cart, product, quantity)
                 IN  Success(MapSet(created, sessionId, pushed), "add",
                             sessionId, 201, "Item added to cart successfully",
                             pushed, <<>>)

\* server.js:247-267 -- GET /api/cart
GetCart(store, sessionId) ==
  LET created == getOrCreateCart(store, sessionId)
  IN  Success(created, "get", sessionId, 200, "", created[sessionId], <<>>)

\* Variant: cart[itemIndex].quantity += quantity
SetQuantityAdds(cart, itemIndex, quantity) ==
  [cart EXCEPT ![itemIndex].quantity = @ + quantity]

\* Variant: cart[0].quantity = quantity
SetQuantityOfFirst(cart, itemIndex, quantity) ==
  [cart EXCEPT ![1].quantity = quantity]

\* server.js:302 -- cart[itemIndex].quantity = quantity
SetQuantity(cart, itemIndex, quantity) ==
  [cart EXCEPT ![itemIndex].quantity = quantity]

\* server.js:272-321 -- PUT /api/cart/:productId
PutCart(store, sessionId, productId, body) ==
  LET v == validateProductId(productId)
  IN  IF v.status # 0
        THEN Failure(store, "update", sessionId, v.status, v.message)
      ELSE IF ~validateQuantity(body)
        THEN Failure(store, "update", sessionId, 400,
                     "Quantity must be a positive integer.")
      ELSE
        LET created   == getOrCreateCart(store, sessionId)
            cart      == created[sessionId]
            product   == v.product[1]
            itemIndex == findIndex(cart, product.id)
        IN  IF Not(body)
              THEN Failure(created, "update", sessionId, 400,
                           "Quantity is required for update operation.")
            ELSE IF itemIndex = 0
              THEN Failure(created, "update", sessionId, 404,
                           "Item not found in cart.")
            ELSE IF ExceedsStock(body.val, product)
              THEN Failure(created, "update", sessionId, 400,
                           "Insufficient stock. Only N items available.")
            ELSE LET updated == SetQuantity(cart, itemIndex, body.val)
                 IN  Success(MapSet(created, sessionId, updated), "update",
                             sessionId, 200, "Cart item updated successfully",
                             updated, <<>>)

\* server.js:324-365 -- DELETE /api/cart/:productId
DeleteCartItem(store, sessionId, productId) ==
  LET created == getOrCreateCart(store, sessionId)
      cart    == created[sessionId]
  IN  IF Len(productId) = 0 \/ isNaN(parseInt(productId))
        THEN Failure(created, "remove", sessionId, 400, "Invalid product ID.")
      ELSE
        LET itemIndex == findIndex(cart, parseInt(productId).val)
        IN  IF itemIndex = 0
              THEN Failure(created, "remove", sessionId, 404,
                           "Item not found in cart.")
            ELSE Success(MapSet(created, sessionId, splice(cart, itemIndex)),
                         "remove", sessionId, 200,
                         "removed from cart successfully",
                         splice(cart, itemIndex), <<cart[itemIndex]>>)

\* Variant: the local variable emptied (cart = []) instead of the map entry.
EmptyLocalOnly(store, sessionId) == store

\* server.js:379 -- carts.set(req.sessionId, [])
EmptyCart(store, sessionId) == MapSet(store, sessionId, <<>>)

\* server.js:368-397 -- DELETE /api/cart
DeleteCart(store, sessionId) ==
  LET created == getOrCreateCart(store, sessionId)
      cart    == created[sessionId]
  IN  IF Len(cart) = 0
        THEN Failure(created, "clear", sessionId, 400,
                     "Cart is already empty.")
        ELSE { [carts |-> EmptyCart(created, sessionId),
                products |-> products,
                resp  |-> [op |-> "clear", sessionId |-> sessionId,
                           status |-> 200, success |-> TRUE,
                           message |-> "Cart cleared successfully",
                           cart |-> <<>>, total |-> 0, itemCount |-> 0,
                           removedItem |-> <<>>]] }

----------------------------------------------------------------------------
(* The state machine: one action per route, one request at a time (the     *)
(* handlers are synchronous and run to completion on one event loop).      *)

Init ==
  /\ carts = <<>>
  /\ resp = NoResponse
  /\ defaultAdds = 0
  /\ products = Catalog

Reply(outcomes) ==
  \E out \in outcomes :
    /\ carts' = out.carts
    /\ products' = out.products
    /\ resp' = out.resp

AddItem ==
  \E header \in Headers, productId \in ProductIdParams, body \in Quantities :
    \E sessionId \in generateSessionId(carts, header) :
      /\ body = Undefined => defaultAdds < MaxDefaultAdds
      /\ Reply(PostCart(carts, sessionId, productId, body))
      /\ defaultAdds' = IF body = Undefined /\ resp'.success
                          THEN defaultAdds + 1
                          ELSE defaultAdds

ViewCart ==
  \E header \in Headers :
    \E sessionId \in generateSessionId(carts, header) :
      /\ Reply(GetCart(carts, sessionId))
      /\ UNCHANGED defaultAdds

UpdateItem ==
  \E header \in Headers, productId \in ProductIdParams, body \in Quantities :
    \E sessionId \in generateSessionId(carts, header) :
      /\ Reply(PutCart(carts, sessionId, productId, body))
      /\ UNCHANGED defaultAdds

RemoveItem ==
  \E header \in Headers, productId \in ProductIdParams :
    \E sessionId \in generateSessionId(carts, header) :
      /\ Reply(DeleteCartItem(carts, sessionId, productId))
      /\ UNCHANGED defaultAdds

ClearCart ==
  \E header \in Headers :
    \E sessionId \in generateSessionId(carts, header) :
      /\ Reply(DeleteCart(carts, sessionId))
      /\ UNCHANGED defaultAdds

Next ==
  \/ AddItem
  \/ ViewCart
  \/ UpdateItem
  \/ RemoveItem
  \/ ClearCart

Spec == Init /\ [][Next]_vars

----------------------------------------------------------------------------
(* One client filling one cart with three catalog products: the same       *)
(* handlers, driven with a single x-session-id header and the product ids  *)
(* 1, 2 and 3, so that carts of three line items are reached.              *)

FirstSession == CHOOSE s \in SessionIds : \A t \in SessionIds : s <= t

OrderParams == { <<"1">>, <<"2">>, <<"3">> }

OrderQuantities == { q \in Quantities : q.type = "integer" /\ q.val >= 1 }

OrderAddItem ==
  \E productId \in OrderParams, body \in OrderQuantities :
    \E sessionId \in generateSessionId(carts, FirstSession) :
      /\ Reply(PostCart(carts, sessionId, productId, body))
      /\ UNCHANGED defaultAdds

OrderUpdateItem ==
  \E productId \in OrderParams, body \in OrderQuantities :
    \E sessionId \in generateSessionId(carts, FirstSession) :
      /\ Reply(PutCart(carts, sessionId, productId, body))
      /\ UNCHANGED defaultAdds

OrderRemoveItem ==
  \E productId \in OrderParams :
    \E sessionId \in generateSessionId(carts, FirstSession) :
      /\ Reply(DeleteCartItem(carts, sessionId, productId))
      /\ UNCHANGED defaultAdds

OrderNext ==
  \/ OrderAddItem
  \/ OrderUpdateItem
  \/ OrderRemoveItem

SpecOrder == Init /\ [][OrderNext]_vars

----------------------------------------------------------------------------
(* Vocabulary of the properties. *)

\* The line items a session sees: those of its cart, none when it has no cart.
Items(store, sessionId) ==
  IF sessionId \in DOMAIN store THEN store[sessionId] ELSE <<>>

\* The catalog product with the given id.
ProductOf(id) == products[CHOOSE i \in 1..Len(products) : products[i].id = id]

CatalogIds == { products[i].id : i \in 1..Len(products) }

\* URL parameters that name a catalog product.
KnownParams == { p \in ProductIdParams : findProductById(p) # NoProduct }

\* Quantities that validateQuantity lets through as a number.
PositiveQuantities == { q \in Quantities : q.type = "integer" /\ q.val >= 1 }

\* The quantity of the line item for product id in cart; 0 when there is none.
QuantityIn(cart, id) ==
  IF \E i \in 1..Len(cart) : cart[i].id = id
    THEN cart[CHOOSE i \in 1..Len(cart) : cart[i].id = id].quantity
    ELSE 0

\* The session ids a request may run under in the current state.
Resolved == UNION { generateSessionId(carts, h) : h \in Headers }

IsInsufficientStock(r) ==
  /\ r.status = 400
  /\ ~r.success
  /\ r.message \in {"Insufficient stock. Only N items available.",
                    "Cannot add more items. Total would exceed stock limit."}

IsItemNotFound(r) ==
  r.status = 404 /\ ~r.success /\ r.message = "Item not found in cart."

IsNotFound(r) == r.status = 404 /\ ~r.success

IsAlreadyEmpty(r) ==
  r.status = 400 /\ ~r.success /\ r.message = "Cart is already empty."

----------------------------------------------------------------------------
\* C1: in every reachable state every cart holds at most one line item per
\* product id, and every line item's quantity is an integer q with
\* 1 <= q <= stock of the catalog product it references.
CartInvariant ==
  \A s \in DOMAIN carts :
    LET cart == carts[s]
    IN  /\ \A i, j \in 1..Len(cart) : cart[i].id = cart[j].id => i = j
        /\ \A i \in 1..Len(cart) :
             /\ cart[i].id \in CatalogIds
             /\ cart[i].quantity \in Int
             /\ 1 <= cart[i].quantity
             /\ cart[i].quantity <= ProductOf(cart[i].id).stock

\* A cart of two line items, one of them at exactly the stock of its product.
CartInvariantWitness ==
  \E s \in DOMAIN carts :
    /\ Len(carts[s]) = 2
    /\ \E i \in 1..2 : carts[s][i].quantity = ProductOf(carts[s][i].id).stock

\* C2: a request issued under session s leaves the cart stored for every
\* other session t unchanged (whether it succeeds or fails), creates no cart
\* but its own, and the cart it returns and stores for s is the one it would
\* have returned and stored had no other session had a cart at all.
Alone(store, sessionId) ==
  [k \in DOMAIN store \cap {sessionId} |-> store[k]]

\* The requests of the five routes, less the session header.
Requests ==
  [op : {"add", "update"}, productId : ProductIdParams, body : Quantities]
    \cup [op : {"remove"}, productId : ProductIdParams, body : {Undefined}]
    \cup [op : {"get", "clear"}, productId : {<<>>}, body : {Undefined}]

\* The outcomes of handling request r under sessionId on store.
OutcomesOf(store, sessionId, r) ==
  CASE r.op = "add"    -> PostCart(store, sessionId, r.productId, r.body)
    [] r.op = "get"    -> GetCart(store, sessionId)
    [] r.op = "update" -> PutCart(store, sessionId, r.productId, r.body)
    [] r.op = "remove" -> DeleteCartItem(store, sessionId, r.productId)
    [] r.op = "clear"  -> DeleteCart(store, sessionId)

SessionIsolation ==
  \A s \in Resolved, r \in Requests :
    \A out \in OutcomesOf(carts, s, r) :
      /\ DOMAIN out.carts \subseteq DOMAIN carts \cup {s}
      /\ \A t \in DOMAIN carts \ {s} :
           t \in DOMAIN out.carts /\ out.carts[t] = carts[t]
      /\ \E solo \in OutcomesOf(Alone(carts, s), s, r) :
           /\ solo.resp = out.resp
           /\ Items(solo.carts, s) = Items(out.carts, s)

\* Two sessions hold different non-empty carts and the last request, which
\* succeeded, returned the cart of its own session.
SessionIsolationWitness ==
  \E s, t \in DOMAIN carts :
    /\ s # t
    /\ carts[s] # <<>>
    /\ carts[t] # <<>>
    /\ carts[s] # carts[t]
    /\ resp.sessionId = s
    /\ resp.success
    /\ resp.cart = carts[s]

\* C3: addItem of quantity q on a product the session's cart already holds
\* with quantity e, where e + q <= stock, succeeds (201), makes that line
\* item's quantity e + q and leaves the number and the rest of the line items
\* as they were; and two adds q1, q2 with q1 + q2 <= stock of a product the
\* cart does not hold give exactly one line item for it, of quantity q1 + q2.
MergeAdd ==
  \A s \in Resolved, p \in KnownParams, q \in PositiveQuantities \cup {Undefined} :
    LET product == findProductById(p)[1]
        n       == IF q = Undefined THEN 1 ELSE q.val
        cart    == Items(carts, s)
        e       == QuantityIn(cart, product.id)
    IN  /\ (e > 0 /\ e + n <= product.stock) =>
             \A out \in PostCart(carts, s, p, q) :
               /\ out.resp.status = 201
               /\ out.resp.success
               /\ Len(out.carts[s]) = Len(cart)
               /\ \A i \in 1..Len(cart) :
                    out.carts[s][i] =
                      IF cart[i].id = product.id
                        THEN [cart[i] EXCEPT !.quantity = e + n]
                        ELSE cart[i]
        /\ e = 0 =>
             \A q2 \in PositiveQuantities :
               n + q2.val <= product.stock =>
                 \A first \in PostCart(carts, s, p, q) :
                   \A second \in PostCart(first.carts, s, p, q2) :
                     /\ second.resp.status = 201
                     /\ Len(second.carts[s]) = Len(cart) + 1
                     /\ Cardinality({ i \in 1..Len(second.carts[s]) :
                                        second.carts[s][i].id = product.id }) = 1
                     /\ QuantityIn(second.carts[s], product.id) = n + q2.val

\* An add has just succeeded and left a single line item of quantity 26,
\* which no request carries: it is 25 merged with a default add of 1.
MergeAddWitness ==
  /\ resp.op = "add"
  /\ resp.success
  /\ resp.sessionId \in DOMAIN carts
  /\ Len(carts[resp.sessionId]) = 1
  /\ carts[resp.sessionId][1].quantity = 26

\* C4: addItem fails with InsufficientStock (400) when the quantity exceeds
\* the product's stock, and when the product is in the cart and existing +
\* requested exceeds the stock; either way the session's line items are what
\* they were before the request.
AddInsufficientStock ==
  \A s \in Resolved, p \in KnownParams, q \in PositiveQuantities \cup {Undefined} :
    LET product == findProductById(p)[1]
        n       == IF q = Undefined THEN 1 ELSE q.val
        cart    == Items(carts, s)
        e       == QuantityIn(cart, product.id)
    IN  (n > product.stock \/ (e > 0 /\ e + n > product.stock)) =>
          \A out \in PostCart(carts, s, p, q) :
            /\ IsInsufficientStock(out.resp)
            /\ Items(out.carts, s) = cart
            /\ \A t \in DOMAIN carts : out.carts[t] = carts[t]

\* An add has just been refused because the merged total would exceed the
\* stock, and the session's cart still holds its line items.
AddInsufficientStockWitness ==
  /\ resp.op = "add"
  /\ resp.status = 400
  /\ resp.message = "Cannot add more items. Total would exceed stock limit."
  /\ resp.sessionId \in DOMAIN carts
  /\ carts[resp.sessionId] # <<>>

\* C5: updateItem with a quantity q, 1 <= q <= stock, on a product the
\* session's cart holds succeeds and makes that line item's quantity exactly
\* q whatever it was, all other line items unchanged; updateItem with a
\* positive integer quantity on a product id the cart holds no line item for
\* fails with NotFound (404) and changes no line item.
UpdateReplaces ==
  \A s \in Resolved, p \in ProductIdParams, q \in PositiveQuantities :
    LET id   == parseInt(p)
        cart == Items(carts, s)
        e    == IF isNaN(id) THEN 0 ELSE QuantityIn(cart, id.val)
    IN  /\ (e > 0 /\ q.val <= ProductOf(id.val).stock) =>
             \A out \in PutCart(carts, s, p, q) :
               /\ out.resp.status = 200
               /\ out.resp.success
               /\ Len(out.carts[s]) = Len(cart)
               /\ \A i \in 1..Len(cart) :
                    out.carts[s][i] =
                      IF cart[i].id = id.val
                        THEN [cart[i] EXCEPT !.quantity = q.val]
                        ELSE cart[i]
        /\ (~isNaN(id) /\ e = 0) =>
             \A out \in PutCart(carts, s, p, q) :
               /\ IsNotFound(out.resp)
               /\ Items(out.carts, s) = cart
               /\ \A t \in DOMAIN carts : out.carts[t] = carts[t]

\* An update has just succeeded on a cart of two line items, one of which
\* now has quantity 25, and returned the cart as stored.
UpdateReplacesWitness ==
  /\ resp.op = "update"
  /\ resp.success
  /\ Len(resp.cart) = 2
  /\ resp.cart = carts[resp.sessionId]
  /\ \E i \in 1..2 : resp.cart[i].quantity = 25

\* C6: updateItem with a quantity above the product's stock on a product the
\* session's cart holds fails with InsufficientStock (400) and leaves that
\* line item's quantity and the rest of the cart unchanged.
UpdateInsufficientStock ==
  \A s \in DOMAIN carts, p \in KnownParams, q \in PositiveQuantities :
    LET product == findProductById(p)[1]
    IN  (QuantityIn(carts[s], product.id) > 0 /\ q.val > product.stock) =>
          \A out \in PutCart(carts, s, p, q) :
            /\ IsInsufficientStock(out.resp)
            /\ out.carts = carts

\* An update has just been refused for lack of stock and the session's cart
\* still holds line items.
UpdateInsufficientStockWitness ==
  /\ resp.op = "update"
  /\ IsInsufficientStock(resp)
  /\ resp.sessionId \in DOMAIN carts
  /\ carts[resp.sessionId] # <<>>

\* The sequence seq without its i-th element.
Without(seq, i) == SubSeq(seq, 1, i - 1) \o SubSeq(seq, i + 1, Len(seq))

\* The whole number of cents of the sum of price * quantity over the cart.
RECURSIVE Cents(_)
Cents(cart) ==
  IF cart = <<>> THEN 0
  ELSE Head(cart).price * Head(cart).quantity + Cents(Tail(cart))

\* C7: removeItem on a product id the session's cart holds a line item for
\* succeeds, returns that line item as removedItem and leaves exactly the
\* other line items, in their order (one fewer, none for that id); when it
\* was the only one the cart returned is empty with itemCount 0 and total 0.
\* removeItem on a product id the cart holds no line item for fails with
\* NotFound (404) and leaves the cart unchanged.
RemoveItemEffect ==
  \A s \in Resolved, p \in ProductIdParams :
    LET id   == parseInt(p)
        cart == Items(carts, s)
    IN  ~isNaN(id) =>
          \A out \in DeleteCartItem(carts, s, p) :
            IF QuantityIn(cart, id.val) > 0
              THEN \E i \in 1..Len(cart) :
                     /\ cart[i].id = id.val
                     /\ out.resp.status = 200
                     /\ out.resp.success
                     /\ out.resp.removedItem = <<cart[i]>>
                     /\ out.carts[s] = Without(cart, i)
                     /\ out.resp.cart = Without(cart, i)
                     /\ Len(out.carts[s]) = Len(cart) - 1
                     /\ QuantityIn(out.carts[s], id.val) = 0
                     /\ out.resp.itemCount = Len(cart) - 1
                     /\ Len(cart) = 1 =>
                          /\ out.resp.cart = <<>>
                          /\ out.resp.itemCount = 0
                          /\ out.resp.total = 0
              ELSE /\ IsItemNotFound(out.resp)
                   /\ Items(out.carts, s) = cart
                   /\ \A t \in DOMAIN carts : out.carts[t] = carts[t]

\* A remove has just succeeded: it returned a line item of quantity 50 and
\* left the session's cart with its one other line item.
RemoveItemEffectWitness ==
  /\ resp.op = "remove"
  /\ resp.success
  /\ Len(resp.removedItem) = 1
  /\ Len(carts[resp.sessionId]) = 1
  /\ resp.removedItem[1].id < carts[resp.sessionId][1].id
  /\ resp.removedItem[1].quantity = 50

\* C8: clearCart on a session whose cart has no line items (also a session
\* never seen) fails with AlreadyEmpty (400); on a cart with line items it
\* succeeds and leaves the session's cart empty, so that a getCart right
\* after it returns an empty cart with total 0 and a clearCart right after
\* it fails with AlreadyEmpty.
ClearCartEffect ==
  \A s \in Resolved :
    \A out \in DeleteCart(carts, s) :
      IF Items(carts, s) = <<>>
        THEN IsAlreadyEmpty(out.resp) /\ Items(out.carts, s) = <<>>
        ELSE /\ out.resp.status = 200
             /\ out.resp.success
             /\ out.carts[s] = <<>>
             /\ \A got \in GetCart(out.carts, s) :
                  /\ got.resp.success
                  /\ got.resp.cart = <<>>
                  /\ got.resp.total = 0
                  /\ got.resp.itemCount = 0
             /\ \A again \in DeleteCart(out.carts, s) :
                  /\ IsAlreadyEmpty(again.resp)
                  /\ again.carts = out.carts

\* A clear has just succeeded: the session's cart is stored empty while
\* another session still holds line items.
ClearCartEffectWitness ==
  /\ resp.op = "clear"
  /\ resp.success
  /\ carts[resp.sessionId] = <<>>
  /\ \E t \in DOMAIN carts : carts[t] # <<>>

\* C9: every successful getCart, addItem, updateItem and removeItem response
\* reports the cart as stored after the operation, total equal to the exact
\* sum of price * quantity over its line items (a whole number of cents) and
\* itemCount equal to the number of line items.
TotalReported ==
  (resp.success /\ resp.op \in {"get", "add", "update", "remove"}) =>
    /\ resp.sessionId \in DOMAIN carts
    /\ resp.cart = carts[resp.sessionId]
    /\ resp.total = Cents(carts[resp.sessionId])
    /\ resp.itemCount = Len(carts[resp.sessionId])

\* An add has just returned two line items, 50 of product 1 and 25 of
\* product 3, with their total and an itemCount of 2 (not 75).
TotalReportedWitness ==
  /\ resp.op = "add"
  /\ resp.success
  /\ resp.itemCount = 2
  /\ QuantityIn(resp.cart, 1) = 50
  /\ QuantityIn(resp.cart, 3) = 25
  /\ resp.total = 50 * 99999 + 25 * 199999

\* C10 as stated: for every operation and every reachable cart state, issuing
\* the same request twice in a row under the same session leaves the cart
\* store as issuing it once does.
Idempotent ==
  \A s \in SessionIds, r \in Requests :
    \A once \in OutcomesOf(carts, s, r) :
      \A twice \in OutcomesOf(once.carts, s, r) :
        twice.carts = once.carts

\* C10 as amended: that holds of getCart, updateItem, removeItem, clearCart
\* and of an addItem that fails; a successful addItem issued again is applied
\* again: it adds its quantity a second time to the same line item, or fails
\* with InsufficientStock and leaves the store as after the first.
IdempotentExceptAdd ==
  \A s \in SessionIds, r \in Requests :
    \A once \in OutcomesOf(carts, s, r) :
      \A twice \in OutcomesOf(once.carts, s, r) :
        IF r.op = "add" /\ once.resp.success
          THEN LET id == parseInt(r.productId).val
                   n  == IF r.body = Undefined THEN 1 ELSE r.body.val
               IN  \/ /\ twice.resp.success
                      /\ Len(twice.carts[s]) = Len(once.carts[s])
                      /\ QuantityIn(twice.carts[s], id)
                           = QuantityIn(once.carts[s], id) + n
                   \/ /\ IsInsufficientStock(twice.resp)
                      /\ twice.carts = once.carts
          ELSE twice.carts = once.carts

\* A remove has just been refused with NotFound on a cart that still holds
\* line items, as a remove issued a second time is.
IdempotentExceptAddWitness ==
  /\ resp.op = "remove"
  /\ IsItemNotFound(resp)
  /\ resp.sessionId \in DOMAIN carts
  /\ carts[resp.sessionId] # <<>>

\* C11: getCart on a session with no stored cart stores an empty cart for it
\* and returns it; on a session with a stored cart it returns that cart's
\* line items and leaves the store as it is; a second getCart right after
\* returns the same response and changes nothing in the store.
GetCartLazy ==
  \A s \in Resolved :
    \A out \in GetCart(carts, s) :
      /\ out.resp.success
      /\ out.resp.status = 200
      /\ IF s \in DOMAIN carts
           THEN /\ out.carts = carts
                /\ out.resp.cart = carts[s]
           ELSE /\ DOMAIN out.carts = DOMAIN carts \cup {s}
                /\ out.carts[s] = <<>>
                /\ \A t \in DOMAIN carts : out.carts[t] = carts[t]
                /\ out.resp.cart = <<>>
                /\ out.resp.total = 0
                /\ out.resp.itemCount = 0
      /\ \A again \in GetCart(out.carts, s) :
           /\ again.carts = out.carts
           /\ again.resp = out.resp

\* A getCart has just returned the two line items stored for its session.
GetCartLazyWitness ==
  /\ resp.op = "get"
  /\ resp.success
  /\ Len(resp.cart) = 2
  /\ resp.cart = carts[resp.sessionId]

\* C12: after any sequence of cart requests every product of the catalog has
\* the id, name, price and stock it started with; adding a product to a cart
\* does not take anything off its stock.
CatalogImmutable ==
  /\ products = Catalog
  /\ \A s \in Resolved, r \in Requests :
       \A out \in OutcomesOf(carts, s, r) : out.products = Catalog

\* An add has just raised a line item of product 1 to 50, the whole stock,
\* and the stock of product 1 is still 50.
CatalogImmutableWitness ==
  /\ resp.op = "add"
  /\ resp.success
  /\ QuantityIn(carts[resp.sessionId], 1) = 50
  /\ ProductOf(1).stock = 50

\* C13: a cart request that carries a non-empty x-session-id runs under
\* exactly that id; one that carries none (or an empty one) runs under a
\* generated id that keys no cart of the store, so that it answers as it
\* would on an empty store and changes no existing cart; either way the id
\* the cart is looked up under is the one the response carries, whether the
\* request succeeds or fails, and no other cart is created or changed.
SessionResolution ==
  \A h \in Headers :
    /\ h >= 1 => generateSessionId(carts, h) = {h}
    /\ \A sid \in generateSessionId(carts, h), r \in Requests :
         /\ h < 1 => sid \notin DOMAIN carts
         /\ \A out \in OutcomesOf(carts, sid, r) :
              /\ out.resp.sessionId = sid
              /\ DOMAIN out.carts \subseteq DOMAIN carts \cup {sid}
              /\ \A t \in DOMAIN carts \ {sid} : out.carts[t] = carts[t]
              /\ (out.resp.success /\ r.op # "clear") =>
                   out.resp.cart = out.carts[sid]
              /\ h < 1 =>
                   \E fresh \in OutcomesOf(<<>>, sid, r) :
                     fresh.resp = out.resp

\* A request has just failed under a session whose cart it created empty,
\* its response carries that session's id, and another session holds line
\* items.
SessionResolutionWitness ==
  /\ resp.op = "update"
  /\ ~resp.success
  /\ resp.sessionId \in DOMAIN carts
  /\ carts[resp.sessionId] = <<>>
  /\ \E t \in DOMAIN carts : carts[t] # <<>>

\* The URL parameter is the decimal numeral of a positive integer: digits
\* only, not all of them 0.
IsPositiveInteger(p) ==
  /\ Len(p) >= 1
  /\ \A i \in 1..Len(p) : p[i] \in Digits
  /\ \E i \in 1..Len(p) : p[i] # "0"

IsInvalidId(r) ==
  /\ r.status = 400
  /\ ~r.success
  /\ r.message \in {"Invalid product ID.",
                    "Invalid product ID. Product ID must be a number."}

\* C14: removeItem fails with InvalidId (400) for every productId that is not
\* a positive integer, 0 and negative integers included, and fails with
\* NotFound (404) only for a positive-integer productId that has no line
\* item in the session's cart.
RemoveInvalidId ==
  \A s \in Resolved, p \in ProductIdParams :
    \A out \in DeleteCartItem(carts, s, p) :
      /\ ~IsPositiveInteger(p) => IsInvalidId(out.resp)
      /\ IsNotFound(out.resp) =>
           /\ IsPositiveInteger(p)
           /\ QuantityIn(Items(carts, s), parseInt(p).val) = 0

IsQuantityRequired(r) ==
  /\ r.status = 400
  /\ ~r.success
  /\ r.message = "Quantity is required for update operation."

\* C15: updateItem on a catalog product checks QuantityRequired, then
\* NotFound, then InsufficientStock: with a quantity above the product's
\* stock and no line item for the product in the session's cart it fails with
\* NotFound (404), not InsufficientStock; with no quantity it fails with
\* QuantityRequired (400) whether or not the product is in the cart.
UpdateErrorOrder ==
  \A s \in Resolved, p \in KnownParams :
    LET product == findProductById(p)[1]
        inCart  == QuantityIn(Items(carts, s), product.id) > 0
    IN  /\ \A out \in PutCart(carts, s, p, Undefined) :
             IsQuantityRequired(out.resp)
        /\ \A q \in PositiveQuantities :
             (q.val > product.stock /\ ~inCart) =>
               \A out \in PutCart(carts, s, p, q) :
                 /\ IsItemNotFound(out.resp)
                 /\ ~IsInsufficientStock(out.resp)

\* An update without a quantity has just been refused with QuantityRequired
\* on a cart that holds both products the requests name, so the product
\* was in the cart.
UpdateErrorOrderWitness ==
  /\ resp.op = "update"
  /\ IsQuantityRequired(resp)
  /\ resp.sessionId \in DOMAIN carts
  /\ Len(carts[resp.sessionId]) = 2

IsInvalidQuantity(r) ==
  /\ r.status = 400
  /\ ~r.success
  /\ r.message = "Quantity must be a positive integer."

\* Supplied quantities that are not positive integers: 0, a negative
\* integer, a value that is not an integer.
BadQuantities ==
  { q \in Quantities : q # Undefined /\ (q.type # "integer" \/ q.val <= 0) }

\* C16: addItem and updateItem on a catalog product with a supplied quantity
\* that is not a positive integer fail with InvalidQuantity (400) before the
\* cart store is touched: no line item changes and no cart entry is created
\* for the session.
InvalidQuantityFirst ==
  \A s \in Resolved, p \in KnownParams, q \in BadQuantities :
    \A out \in PostCart(carts, s, p, q) \cup PutCart(carts, s, p, q) :
      /\ IsInvalidQuantity(out.resp)
      /\ out.carts = carts
      /\ DOMAIN out.carts = DOMAIN carts

\* A request has just been refused with InvalidQuantity and its session has
\* no cart entry, while another session has one.
InvalidQuantityFirstWitness ==
  /\ IsInvalidQuantity(resp)
  /\ resp.op \in {"add", "update"}
  /\ resp.sessionId \notin DOMAIN carts
  /\ DOMAIN carts # {}

\* The statement of C17 as written: updateItem on a catalog product fails
\* with QuantityRequired when the quantity is absent and also when it is a
\* supplied 0.
UpdateFalsyRequired ==
  \A s \in Resolved, p \in KnownParams, q \in {Undefined, Integer(0)} :
    \A out \in PutCart(carts, s, p, q) : IsQuantityRequired(out.resp)

\* C17 (amended): updateItem on a catalog product fails with QuantityRequired
\* exactly when the quantity is absent; a supplied 0 never reaches that check,
\* it is refused by the shared quantity validation with InvalidQuantity (400),
\* as is every other supplied quantity that is not a positive integer.
UpdateQuantityRequired ==
  \A s \in Resolved, p \in KnownParams, q \in Quantities :
    \A out \in PutCart(carts, s, p, q) :
      /\ IsQuantityRequired(out.resp) <=> q = Undefined
      /\ q = Integer(0) => IsInvalidQuantity(out.resp)

\* An update has just been refused with QuantityRequired on a session whose
\* cart holds one line item, with a second session's cart in the store.
UpdateQuantityRequiredWitness ==
  /\ resp.op = "update" /\ IsQuantityRequired(resp)
  /\ resp.sessionId \in DOMAIN carts /\ Len(carts[resp.sessionId]) = 1
  /\ \E t \in DOMAIN carts : t # resp.sessionId /\ carts[t] # <<>>

\* The failures answered by validateProductId and validateQuantity, which run
\* before the handlers of add and update.
IsMiddlewareFailure(r) ==
  /\ r.op \in {"add", "update"}
  /\ ~r.success
  /\ r.message \in {"Invalid product ID. Product ID must be a number.",
                    "Product not found.",
                    "Quantity must be a positive integer."}

\* C18: a failing request (400 or 404) leaves the line items of every cart
\* unchanged; the only change it can make to the store is an empty cart entry
\* for its own session, made by the failures detected after the cart lookup
\* and not by the product-id or quantity validation of add and update.
FailureFrame ==
  \A s \in Resolved, r \in Requests :
    \A out \in OutcomesOf(carts, s, r) :
      ~out.resp.success =>
        /\ out.resp.status \in {400, 404}
        /\ DOMAIN out.carts \subseteq DOMAIN carts \cup {s}
        /\ \A t \in DOMAIN carts :
             t \in DOMAIN out.carts /\ out.carts[t] = carts[t]
        /\ \A t \in DOMAIN out.carts \ DOMAIN carts : out.carts[t] = <<>>
        /\ IF IsMiddlewareFailure(out.resp)
             THEN out.carts = carts
             ELSE s \in DOMAIN out.carts

\* A request of a session has just failed after the cart lookup, leaving the
\* session with an empty cart entry next to another session's line items.
FailureFrameWitness ==
  /\ ~resp.success /\ resp # NoResponse
  /\ ~IsMiddlewareFailure(resp)
  /\ resp.sessionId \in DOMAIN carts /\ carts[resp.sessionId] = <<>>
  /\ \E t \in DOMAIN carts : Len(carts[t]) = 2

\* The product ids of a cart's line items, in cart order.
IdsOf(cart) == [i \in 1..Len(cart) |-> cart[i].id]

\* cart with the line item at index i left out, the others in their order.
Skipping(cart, i) ==
  [j \in 1..(Len(cart) - 1) |-> IF j < i THEN cart[j] ELSE cart[j + 1]]

\* C19: the cart is kept in insertion order.  A successful addItem of a
\* product not in the cart puts its line item after all the others, which
\* stay as they are; a successful merge-add or updateItem changes the
\* quantity of the one line item and nothing else, every position kept; a
\* successful removeItem leaves the other line items in their relative order.
InsertionOrder ==
  \A s \in Resolved, p \in OrderParams :
    LET cart    == Items(carts, s)
        product == findProductById(p)[1]
        i       == findIndex(cart, product.id)
    IN  /\ \A q \in OrderQuantities :
             /\ \A out \in PostCart(carts, s, p, q) :
                  out.resp.success =>
                    LET new == out.carts[s]
                    IN  IF i = 0
                          THEN /\ Len(new) = Len(cart) + 1
                               /\ SubSeq(new, 1, Len(cart)) = cart
                               /\ new[Len(new)].id = product.id
                          ELSE /\ IdsOf(new) = IdsOf(cart)
                               /\ new = [cart EXCEPT ![i].quantity =
                                                       new[i].quantity]
             /\ \A out \in PutCart(carts, s, p, q) :
                  out.resp.success =>
                    LET new == out.carts[s]
                    IN  /\ i # 0
                        /\ IdsOf(new) = IdsOf(cart)
                        /\ new = [cart EXCEPT ![i].quantity = new[i].quantity]
        /\ \A out \in DeleteCartItem(carts, s, p) :
             out.resp.success =>
               /\ i # 0
               /\ out.carts[s] = Skipping(cart, i)

\* The middle line item of a three-item cart whose order is not the order of
\* the product ids has just been removed, the outer two staying in place.
InsertionOrderWitness ==
  /\ resp.op = "remove" /\ resp.success
  /\ IdsOf(carts[resp.sessionId]) = <<3, 1>>
  /\ Len(resp.removedItem) = 1 /\ resp.removedItem[1].id = 2

\* The stores that differ from store only in the cart of another session t:
\* t without a cart, or holding the product at the whole of its stock.
OtherCartsVaried(store, t, product) ==
  { [k \in DOMAIN store \ {t} |-> store[k]],
    MapSet(store, t, PushItem(<<>>, product, product.stock)) }

\* C20: the stock ceiling is per cart.  Whatever another session's cart
\* holds, the product at the whole of its stock included, an addItem or
\* updateItem request of a session gets the same response and leaves the
\* session the same cart.
StockPerCart ==
  \A s \in Resolved, p \in KnownParams, q \in PositiveQuantities \cup {Undefined} :
    \A t \in SessionIds \ {s} :
      LET product == findProductById(p)[1]
      IN  \A other \in OtherCartsVaried(carts, t, product) :
            \A op \in {"add", "update"} :
              LET r == [op |-> op, productId |-> p, body |-> q]
              IN  { [resp |-> out.resp, cart |-> Items(out.carts, s)] :
                      out \in OutcomesOf(carts, s, r) }
                  = { [resp |-> out.resp, cart |-> Items(out.carts, s)] :
                      out \in OutcomesOf(other, s, r) }

\* An addItem has just succeeded for a product whose quantities, summed over
\* the carts of all sessions, are above its stock.
StockPerCartWitness ==
  /\ resp.op = "add" /\ resp.success
  /\ \E i \in 1..Len(resp.cart) :
       LET id == resp.cart[i].id
       IN  /\ QuantityHeld(carts, DOMAIN carts, id) > ProductOf(id).stock
           /\ QuantityHeld(carts, DOMAIN carts \ {resp.sessionId}, id) > 0

====
